---- MODULE Spec2Model ----
(***************************************************************************)
(* Model of dashboard.py: a Streamlit script that is re-executed from top   *)
(* to bottom on every user interaction.  One run resolves the environment,  *)
(* loads a record set (BigQuery, then a local CSV file, then a hard stop),  *)
(* renders five display blocks and, when the button was clicked, asks the   *)
(* hosted text-generation API for a summary of the first rows.              *)
(*                                                                          *)
(* Text is modelled as a sequence of Unicode code points so that the        *)
(* conversions of the script (astype(str), strip, lower, contains) are      *)
(* computed and not assumed.  A cell value is a record [t, s, n]: a text    *)
(* (t = "str"), a boolean (t = "bool", n = 0/1), an integer (t = "int"), a  *)
(* float with an integral value n.0 (t = "float") or a missing value: the   *)
(* float nan that read_csv leaves in an empty field (t = "nan") or the      *)
(* None that the data frame of a query holds for a NULL text (t = "none").  *)
(***************************************************************************)
EXTENDS Integers, Sequences, FiniteSets, TLC

\* ------------------------------------------------------------------ bounds
\* longest short record set that is enumerated
MaxRows == 2
\* number of script runs (user interactions) of one session
MaxRuns == 2

\* ------------------------------------------------------- program constants
\* data.head(50)
HeadRows == 50
\* Series.head() keeps 5 entries
HeadDefault == 5

\* -------------------------------------------------------------------- text
\* A character is its Unicode code point, a text the sequence of its
\* characters.  The tables are those of Unicode 14.

\* the runs of characters from U+00C0 on whose lower case is one other
\* character: <<first, last, step, delta>> stands for the characters first,
\* first + step, ..., last, each with the lower case c + delta
LowerRuns ==
    <<<<192, 214, 1, 32>>, <<216, 222, 1, 32>>, <<256, 302, 2, 1>>,
      <<306, 310, 2, 1>>, <<313, 327, 2, 1>>, <<330, 374, 2, 1>>,
      <<376, 376, 1, -121>>, <<377, 381, 2, 1>>, <<385, 385, 1, 210>>,
      <<386, 388, 2, 1>>, <<390, 390, 1, 206>>, <<391, 391, 1, 1>>,
      <<393, 394, 1, 205>>, <<395, 395, 1, 1>>, <<398, 398, 1, 79>>,
      <<399, 399, 1, 202>>, <<400, 400, 1, 203>>, <<401, 401, 1, 1>>,
      <<403, 403, 1, 205>>, <<404, 404, 1, 207>>, <<406, 406, 1, 211>>,
      <<407, 407, 1, 209>>, <<408, 408, 1, 1>>, <<412, 412, 1, 211>>,
      <<413, 413, 1, 213>>, <<415, 415, 1, 214>>, <<416, 420, 2, 1>>,
      <<422, 422, 1, 218>>, <<423, 423, 1, 1>>, <<425, 425, 1, 218>>,
      <<428, 428, 1, 1>>, <<430, 430, 1, 218>>, <<431, 431, 1, 1>>,
      <<433, 434, 1, 217>>, <<435, 437, 2, 1>>, <<439, 439, 1, 219>>,
      <<440, 440, 1, 1>>, <<444, 444, 1, 1>>, <<452, 452, 1, 2>>,
      <<453, 453, 1, 1>>, <<455, 455, 1, 2>>, <<456, 456, 1, 1>>,
      <<458, 458, 1, 2>>, <<459, 475, 2, 1>>, <<478, 494, 2, 1>>,
      <<497, 497, 1, 2>>, <<498, 500, 2, 1>>, <<502, 502, 1, -97>>,
      <<503, 503, 1, -56>>, <<504, 542, 2, 1>>, <<544, 544, 1, -130>>,
      <<546, 562, 2, 1>>, <<570, 570, 1, 10795>>, <<571, 571, 1, 1>>,
      <<573, 573, 1, -163>>, <<574, 574, 1, 10792>>, <<577, 577, 1, 1>>,
      <<579, 579, 1, -195>>, <<580, 580, 1, 69>>, <<581, 581, 1, 71>>,
      <<582, 590, 2, 1>>, <<880, 882, 2, 1>>, <<886, 886, 1, 1>>,
      <<895, 895, 1, 116>>, <<902, 902, 1, 38>>, <<904, 906, 1, 37>>,
      <<908, 908, 1, 64>>, <<910, 911, 1, 63>>, <<913, 929, 1, 32>>,
      <<931, 939, 1, 32>>, <<975, 975, 1, 8>>, <<984, 1006, 2, 1>>,
      <<1012, 1012, 1, -60>>, <<1015, 1015, 1, 1>>, <<1017, 1017, 1, -7>>,
      <<1018, 1018, 1, 1>>, <<1021, 1023, 1, -130>>, <<1024, 1039, 1, 80>>,
      <<1040, 1071, 1, 32>>, <<1120, 1152, 2, 1>>, <<1162, 1214, 2, 1>>,
      <<1216, 1216, 1, 15>>, <<1217, 1229, 2, 1>>, <<1232, 1326, 2, 1>>,
      <<1329, 1366, 1, 48>>, <<4256, 4293, 1, 7264>>,
      <<4295, 4295, 1, 7264>>, <<4301, 4301, 1, 7264>>,
      <<5024, 5103, 1, 38864>>, <<5104, 5109, 1, 8>>,
      <<7312, 7354, 1, -3008>>, <<7357, 7359, 1, -3008>>,
      <<7680, 7828, 2, 1>>, <<7838, 7838, 1, -7615>>, <<7840, 7934, 2, 1>>,
      <<7944, 7951, 1, -8>>, <<7960, 7965, 1, -8>>, <<7976, 7983, 1, -8>>,
      <<7992, 7999, 1, -8>>, <<8008, 8013, 1, -8>>, <<8025, 8031, 2, -8>>,
      <<8040, 8047, 1, -8>>, <<8072, 8079, 1, -8>>, <<8088, 8095, 1, -8>>,
      <<8104, 8111, 1, -8>>, <<8120, 8121, 1, -8>>, <<8122, 8123, 1, -74>>,
      <<8124, 8124, 1, -9>>, <<8136, 8139, 1, -86>>, <<8140, 8140, 1, -9>>,
      <<8152, 8153, 1, -8>>, <<8154, 8155, 1, -100>>,
      <<8168, 8169, 1, -8>>, <<8170, 8171, 1, -112>>,
      <<8172, 8172, 1, -7>>, <<8184, 8185, 1, -128>>,
      <<8186, 8187, 1, -126>>, <<8188, 8188, 1, -9>>,
      <<8486, 8486, 1, -7517>>, <<8490, 8490, 1, -8383>>,
      <<8491, 8491, 1, -8262>>, <<8498, 8498, 1, 28>>,
      <<8544, 8559, 1, 16>>, <<8579, 8579, 1, 1>>, <<9398, 9423, 1, 26>>,
      <<11264, 11311, 1, 48>>, <<11360, 11360, 1, 1>>,
      <<11362, 11362, 1, -10743>>, <<11363, 11363, 1, -3814>>,
      <<11364, 11364, 1, -10727>>, <<11367, 11371, 2, 1>>,
      <<11373, 11373, 1, -10780>>, <<11374, 11374, 1, -10749>>,
      <<11375, 11375, 1, -10783>>, <<11376, 11376, 1, -10782>>,
      <<11378, 11378, 1, 1>>, <<11381, 11381, 1, 1>>,
      <<11390, 11391, 1, -10815>>, <<11392, 11490, 2, 1>>,
      <<11499, 11501, 2, 1>>, <<11506, 11506, 1, 1>>,
      <<42560, 42604, 2, 1>>, <<42624, 42650, 2, 1>>,
      <<42786, 42798, 2, 1>>, <<42802, 42862, 2, 1>>,
      <<42873, 42875, 2, 1>>, <<42877, 42877, 1, -35332>>,
      <<42878, 42886, 2, 1>>, <<42891, 42891, 1, 1>>,
      <<42893, 42893, 1, -42280>>, <<42896, 42898, 2, 1>>,
      <<42902, 42920, 2, 1>>, <<42922, 42922, 1, -42308>>,
      <<42923, 42923, 1, -42319>>, <<42924, 42924, 1, -42315>>,
      <<42925, 42925, 1, -42305>>, <<42926, 42926, 1, -42308>>,
      <<42928, 42928, 1, -42258>>, <<42929, 42929, 1, -42282>>,
      <<42930, 42930, 1, -42261>>, <<42931, 42931, 1, 928>>,
      <<42932, 42946, 2, 1>>, <<42948, 42948, 1, -48>>,
      <<42949, 42949, 1, -42307>>, <<42950, 42950, 1, -35384>>,
      <<42951, 42953, 2, 1>>, <<42960, 42960, 1, 1>>,
      <<42966, 42968, 2, 1>>, <<42997, 42997, 1, 1>>,
      <<65313, 65338, 1, 32>>, <<66560, 66599, 1, 40>>,
      <<66736, 66771, 1, 40>>, <<66928, 66938, 1, 39>>,
      <<66940, 66954, 1, 39>>, <<66956, 66962, 1, 39>>,
      <<66964, 66965, 1, 39>>, <<68736, 68786, 1, 64>>,
      <<71840, 71871, 1, 32>>, <<93760, 93791, 1, 32>>,
      <<125184, 125217, 1, 34>>>>

\* the ranges of the characters with the property Cased
CasedRanges ==
    <<<<65, 90>>, <<97, 122>>, <<170, 170>>, <<181, 181>>, <<186, 186>>,
      <<192, 214>>, <<216, 246>>, <<248, 442>>, <<444, 447>>, <<452, 659>>,
      <<661, 696>>, <<704, 705>>, <<736, 740>>, <<837, 837>>, <<880, 883>>,
      <<886, 887>>, <<890, 893>>, <<895, 895>>, <<902, 902>>, <<904, 906>>,
      <<908, 908>>, <<910, 929>>, <<931, 1013>>, <<1015, 1153>>,
      <<1162, 1327>>, <<1329, 1366>>, <<1376, 1416>>, <<4256, 4293>>,
      <<4295, 4295>>, <<4301, 4301>>, <<4304, 4346>>, <<4349, 4351>>,
      <<5024, 5109>>, <<5112, 5117>>, <<7296, 7304>>, <<7312, 7354>>,
      <<7357, 7359>>, <<7424, 7615>>, <<7680, 7957>>, <<7960, 7965>>,
      <<7968, 8005>>, <<8008, 8013>>, <<8016, 8023>>, <<8025, 8025>>,
      <<8027, 8027>>, <<8029, 8029>>, <<8031, 8061>>, <<8064, 8116>>,
      <<8118, 8124>>, <<8126, 8126>>, <<8130, 8132>>, <<8134, 8140>>,
      <<8144, 8147>>, <<8150, 8155>>, <<8160, 8172>>, <<8178, 8180>>,
      <<8182, 8188>>, <<8305, 8305>>, <<8319, 8319>>, <<8336, 8348>>,
      <<8450, 8450>>, <<8455, 8455>>, <<8458, 8467>>, <<8469, 8469>>,
      <<8473, 8477>>, <<8484, 8484>>, <<8486, 8486>>, <<8488, 8488>>,
      <<8490, 8493>>, <<8495, 8500>>, <<8505, 8505>>, <<8508, 8511>>,
      <<8517, 8521>>, <<8526, 8526>>, <<8544, 8575>>, <<8579, 8580>>,
      <<9398, 9449>>, <<11264, 11492>>, <<11499, 11502>>, <<11506, 11507>>,
      <<11520, 11557>>, <<11559, 11559>>, <<11565, 11565>>,
      <<42560, 42605>>, <<42624, 42653>>, <<42786, 42887>>,
      <<42891, 42894>>, <<42896, 42954>>, <<42960, 42961>>,
      <<42963, 42963>>, <<42965, 42969>>, <<42997, 42998>>,
      <<43000, 43002>>, <<43824, 43866>>, <<43868, 43880>>,
      <<43888, 43967>>, <<64256, 64262>>, <<64275, 64279>>,
      <<65313, 65338>>, <<65345, 65370>>, <<66560, 66639>>,
      <<66736, 66771>>, <<66776, 66811>>, <<66928, 66938>>,
      <<66940, 66954>>, <<66956, 66962>>, <<66964, 66965>>,
      <<66967, 66977>>, <<66979, 66993>>, <<66995, 67001>>,
      <<67003, 67004>>, <<67456, 67456>>, <<67459, 67461>>,
      <<67463, 67504>>, <<67506, 67514>>, <<68736, 68786>>,
      <<68800, 68850>>, <<71840, 71903>>, <<93760, 93823>>,
      <<119808, 119892>>, <<119894, 119964>>, <<119966, 119967>>,
      <<119970, 119970>>, <<119973, 119974>>, <<119977, 119980>>,
      <<119982, 119993>>, <<119995, 119995>>, <<119997, 120003>>,
      <<120005, 120069>>, <<120071, 120074>>, <<120077, 120084>>,
      <<120086, 120092>>, <<120094, 120121>>, <<120123, 120126>>,
      <<120128, 120132>>, <<120134, 120134>>, <<120138, 120144>>,
      <<120146, 120485>>, <<120488, 120512>>, <<120514, 120538>>,
      <<120540, 120570>>, <<120572, 120596>>, <<120598, 120628>>,
      <<120630, 120654>>, <<120656, 120686>>, <<120688, 120712>>,
      <<120714, 120744>>, <<120746, 120770>>, <<120772, 120779>>,
      <<122624, 122633>>, <<122635, 122654>>, <<125184, 125251>>,
      <<127280, 127305>>, <<127312, 127337>>, <<127344, 127369>>>>

\* the ranges of the characters with the property Case_Ignorable
CaseIgnorableRanges ==
    <<<<39, 39>>, <<46, 46>>, <<58, 58>>, <<94, 94>>, <<96, 96>>,
      <<168, 168>>, <<173, 173>>, <<175, 175>>, <<180, 180>>, <<183, 184>>,
      <<688, 879>>, <<884, 885>>, <<890, 890>>, <<900, 901>>, <<903, 903>>,
      <<1155, 1161>>, <<1369, 1369>>, <<1375, 1375>>, <<1425, 1469>>,
      <<1471, 1471>>, <<1473, 1474>>, <<1476, 1477>>, <<1479, 1479>>,
      <<1524, 1524>>, <<1536, 1541>>, <<1552, 1562>>, <<1564, 1564>>,
      <<1600, 1600>>, <<1611, 1631>>, <<1648, 1648>>, <<1750, 1757>>,
      <<1759, 1768>>, <<1770, 1773>>, <<1807, 1807>>, <<1809, 1809>>,
      <<1840, 1866>>, <<1958, 1968>>, <<2027, 2037>>, <<2042, 2042>>,
      <<2045, 2045>>, <<2070, 2093>>, <<2137, 2139>>, <<2184, 2184>>,
      <<2192, 2193>>, <<2200, 2207>>, <<2249, 2306>>, <<2362, 2362>>,
      <<2364, 2364>>, <<2369, 2376>>, <<2381, 2381>>, <<2385, 2391>>,
      <<2402, 2403>>, <<2417, 2417>>, <<2433, 2433>>, <<2492, 2492>>,
      <<2497, 2500>>, <<2509, 2509>>, <<2530, 2531>>, <<2558, 2558>>,
      <<2561, 2562>>, <<2620, 2620>>, <<2625, 2626>>, <<2631, 2632>>,
      <<2635, 2637>>, <<2641, 2641>>, <<2672, 2673>>, <<2677, 2677>>,
      <<2689, 2690>>, <<2748, 2748>>, <<2753, 2757>>, <<2759, 2760>>,
      <<2765, 2765>>, <<2786, 2787>>, <<2810, 2815>>, <<2817, 2817>>,
      <<2876, 2876>>, <<2879, 2879>>, <<2881, 2884>>, <<2893, 2893>>,
      <<2901, 2902>>, <<2914, 2915>>, <<2946, 2946>>, <<3008, 3008>>,
      <<3021, 3021>>, <<3072, 3072>>, <<3076, 3076>>, <<3132, 3132>>,
      <<3134, 3136>>, <<3142, 3144>>, <<3146, 3149>>, <<3157, 3158>>,
      <<3170, 3171>>, <<3201, 3201>>, <<3260, 3260>>, <<3263, 3263>>,
      <<3270, 3270>>, <<3276, 3277>>, <<3298, 3299>>, <<3328, 3329>>,
      <<3387, 3388>>, <<3393, 3396>>, <<3405, 3405>>, <<3426, 3427>>,
      <<3457, 3457>>, <<3530, 3530>>, <<3538, 3540>>, <<3542, 3542>>,
      <<3633, 3633>>, <<3636, 3642>>, <<3654, 3662>>, <<3761, 3761>>,
      <<3764, 3772>>, <<3782, 3782>>, <<3784, 3789>>, <<3864, 3865>>,
      <<3893, 3893>>, <<3895, 3895>>, <<3897, 3897>>, <<3953, 3966>>,
      <<3968, 3972>>, <<3974, 3975>>, <<3981, 3991>>, <<3993, 4028>>,
      <<4038, 4038>>, <<4141, 4144>>, <<4146, 4151>>, <<4153, 4154>>,
      <<4157, 4158>>, <<4184, 4185>>, <<4190, 4192>>, <<4209, 4212>>,
      <<4226, 4226>>, <<4229, 4230>>, <<4237, 4237>>, <<4253, 4253>>,
      <<4348, 4348>>, <<4957, 4959>>, <<5906, 5908>>, <<5938, 5939>>,
      <<5970, 5971>>, <<6002, 6003>>, <<6068, 6069>>, <<6071, 6077>>,
      <<6086, 6086>>, <<6089, 6099>>, <<6103, 6103>>, <<6109, 6109>>,
      <<6155, 6159>>, <<6211, 6211>>, <<6277, 6278>>, <<6313, 6313>>,
      <<6432, 6434>>, <<6439, 6440>>, <<6450, 6450>>, <<6457, 6459>>,
      <<6679, 6680>>, <<6683, 6683>>, <<6742, 6742>>, <<6744, 6750>>,
      <<6752, 6752>>, <<6754, 6754>>, <<6757, 6764>>, <<6771, 6780>>,
      <<6783, 6783>>, <<6823, 6823>>, <<6832, 6862>>, <<6912, 6915>>,
      <<6964, 6964>>, <<6966, 6970>>, <<6972, 6972>>, <<6978, 6978>>,
      <<7019, 7027>>, <<7040, 7041>>, <<7074, 7077>>, <<7080, 7081>>,
      <<7083, 7085>>, <<7142, 7142>>, <<7144, 7145>>, <<7149, 7149>>,
      <<7151, 7153>>, <<7212, 7219>>, <<7222, 7223>>, <<7288, 7293>>,
      <<7376, 7378>>, <<7380, 7392>>, <<7394, 7400>>, <<7405, 7405>>,
      <<7412, 7412>>, <<7416, 7417>>, <<7468, 7530>>, <<7544, 7544>>,
      <<7579, 7679>>, <<8125, 8125>>, <<8127, 8129>>, <<8141, 8143>>,
      <<8157, 8159>>, <<8173, 8175>>, <<8189, 8190>>, <<8203, 8207>>,
      <<8216, 8217>>, <<8228, 8228>>, <<8231, 8231>>, <<8234, 8238>>,
      <<8288, 8292>>, <<8294, 8303>>, <<8305, 8305>>, <<8319, 8319>>,
      <<8336, 8348>>, <<8400, 8432>>, <<11388, 11389>>, <<11503, 11505>>,
      <<11631, 11631>>, <<11647, 11647>>, <<11744, 11775>>,
      <<11823, 11823>>, <<12293, 12293>>, <<12330, 12333>>,
      <<12337, 12341>>, <<12347, 12347>>, <<12441, 12446>>,
      <<12540, 12542>>, <<40981, 40981>>, <<42232, 42237>>,
      <<42508, 42508>>, <<42607, 42610>>, <<42612, 42621>>,
      <<42623, 42623>>, <<42652, 42655>>, <<42736, 42737>>,
      <<42752, 42785>>, <<42864, 42864>>, <<42888, 42890>>,
      <<42994, 42996>>, <<43000, 43001>>, <<43010, 43010>>,
      <<43014, 43014>>, <<43019, 43019>>, <<43045, 43046>>,
      <<43052, 43052>>, <<43204, 43205>>, <<43232, 43249>>,
      <<43263, 43263>>, <<43302, 43309>>, <<43335, 43345>>,
      <<43392, 43394>>, <<43443, 43443>>, <<43446, 43449>>,
      <<43452, 43453>>, <<43471, 43471>>, <<43493, 43494>>,
      <<43561, 43566>>, <<43569, 43570>>, <<43573, 43574>>,
      <<43587, 43587>>, <<43596, 43596>>, <<43632, 43632>>,
      <<43644, 43644>>, <<43696, 43696>>, <<43698, 43700>>,
      <<43703, 43704>>, <<43710, 43711>>, <<43713, 43713>>,
      <<43741, 43741>>, <<43756, 43757>>, <<43763, 43764>>,
      <<43766, 43766>>, <<43867, 43871>>, <<43881, 43883>>,
      <<44005, 44005>>, <<44008, 44008>>, <<44013, 44013>>,
      <<64286, 64286>>, <<64434, 64450>>, <<65024, 65039>>,
      <<65043, 65043>>, <<65056, 65071>>, <<65106, 65106>>,
      <<65109, 65109>>, <<65279, 65279>>, <<65287, 65287>>,
      <<65294, 65294>>, <<65306, 65306>>, <<65342, 65342>>,
      <<65344, 65344>>, <<65392, 65392>>, <<65438, 65439>>,
      <<65507, 65507>>, <<65529, 65531>>, <<66045, 66045>>,
      <<66272, 66272>>, <<66422, 66426>>, <<67456, 67461>>,
      <<67463, 67504>>, <<67506, 67514>>, <<68097, 68099>>,
      <<68101, 68102>>, <<68108, 68111>>, <<68152, 68154>>,
      <<68159, 68159>>, <<68325, 68326>>, <<68900, 68903>>,
      <<69291, 69292>>, <<69446, 69456>>, <<69506, 69509>>,
      <<69633, 69633>>, <<69688, 69702>>, <<69744, 69744>>,
      <<69747, 69748>>, <<69759, 69761>>, <<69811, 69814>>,
      <<69817, 69818>>, <<69821, 69821>>, <<69826, 69826>>,
      <<69837, 69837>>, <<69888, 69890>>, <<69927, 69931>>,
      <<69933, 69940>>, <<70003, 70003>>, <<70016, 70017>>,
      <<70070, 70078>>, <<70089, 70092>>, <<70095, 70095>>,
      <<70191, 70193>>, <<70196, 70196>>, <<70198, 70199>>,
      <<70206, 70206>>, <<70367, 70367>>, <<70371, 70378>>,
      <<70400, 70401>>, <<70459, 70460>>, <<70464, 70464>>,
      <<70502, 70508>>, <<70512, 70516>>, <<70712, 70719>>,
      <<70722, 70724>>, <<70726, 70726>>, <<70750, 70750>>,
      <<70835, 70840>>, <<70842, 70842>>, <<70847, 70848>>,
      <<70850, 70851>>, <<71090, 71093>>, <<71100, 71101>>,
      <<71103, 71104>>, <<71132, 71133>>, <<71219, 71226>>,
      <<71229, 71229>>, <<71231, 71232>>, <<71339, 71339>>,
      <<71341, 71341>>, <<71344, 71349>>, <<71351, 71351>>,
      <<71453, 71455>>, <<71458, 71461>>, <<71463, 71467>>,
      <<71727, 71735>>, <<71737, 71738>>, <<71995, 71996>>,
      <<71998, 71998>>, <<72003, 72003>>, <<72148, 72151>>,
      <<72154, 72155>>, <<72160, 72160>>, <<72193, 72202>>,
      <<72243, 72248>>, <<72251, 72254>>, <<72263, 72263>>,
      <<72273, 72278>>, <<72281, 72283>>, <<72330, 72342>>,
      <<72344, 72345>>, <<72752, 72758>>, <<72760, 72765>>,
      <<72767, 72767>>, <<72850, 72871>>, <<72874, 72880>>,
      <<72882, 72883>>, <<72885, 72886>>, <<73009, 73014>>,
      <<73018, 73018>>, <<73020, 73021>>, <<73023, 73029>>,
      <<73031, 73031>>, <<73104, 73105>>, <<73109, 73109>>,
      <<73111, 73111>>, <<73459, 73460>>, <<78896, 78904>>,
      <<92912, 92916>>, <<92976, 92982>>, <<92992, 92995>>,
      <<94031, 94031>>, <<94095, 94111>>, <<94176, 94177>>,
      <<94179, 94180>>, <<110576, 110579>>, <<110581, 110587>>,
      <<110589, 110590>>, <<113821, 113822>>, <<113824, 113827>>,
      <<118528, 118573>>, <<118576, 118598>>, <<119143, 119145>>,
      <<119155, 119170>>, <<119173, 119179>>, <<119210, 119213>>,
      <<119362, 119364>>, <<121344, 121398>>, <<121403, 121452>>,
      <<121461, 121461>>, <<121476, 121476>>, <<121499, 121503>>,
      <<121505, 121519>>, <<122880, 122886>>, <<122888, 122904>>,
      <<122907, 122913>>, <<122915, 122916>>, <<122918, 122922>>,
      <<123184, 123197>>, <<123566, 123566>>, <<123628, 123631>>,
      <<125136, 125142>>, <<125252, 125259>>, <<127995, 127999>>,
      <<917505, 917505>>, <<917536, 917631>>, <<917760, 917999>>>>

InRanges(c, ranges) == \E k \in DOMAIN ranges : ranges[k][1] <= c /\ c <= ranges[k][2]
IsCased(c) == InRanges(c, CasedRanges)
IsCaseIgnorable(c) == InRanges(c, CaseIgnorableRanges)

\* str.lower() on one character whose lower case is one character; below
\* U+00C0 only A-Z have a lower case
LowerChar(c) ==
    IF c < 192 THEN (IF 65 <= c /\ c <= 90 THEN c + 32 ELSE c)
    ELSE LET hits == {k \in DOMAIN LowerRuns :
                         /\ LowerRuns[k][1] <= c
                         /\ c <= LowerRuns[k][2]
                         /\ (c - LowerRuns[k][1]) % LowerRuns[k][3] = 0}
         IN  IF hits = {} THEN c
             ELSE c + LowerRuns[CHOOSE k \in hits : TRUE][4]

\* the capital sigma at position i of s is a final sigma: before it, after
\* any case-ignorable characters, there is a cased character, and after it,
\* after any case-ignorable characters, there is none
FinalSigma(s, i) ==
    LET before == {j \in 1..(i - 1) : ~IsCaseIgnorable(s[j])}
        after  == {j \in (i + 1)..Len(s) : ~IsCaseIgnorable(s[j])}
    IN  /\ before # {}
        /\ IsCased(s[CHOOSE j \in before : \A k \in before : k <= j])
        /\ \/ after = {}
           \/ ~IsCased(s[CHOOSE j \in after : \A k \in after : j <= k])

\* str.lower() on the character at position i of s: U+0130 (capital I with
\* dot above) becomes two characters, i and the combining dot above; the
\* capital sigma U+03A3 becomes U+03C2 when final and U+03C3 otherwise
LowerOne(s, i) ==
    CASE s[i] = 304 -> <<105, 775>>
      [] s[i] = 931 -> IF FinalSigma(s, i) THEN <<962>> ELSE <<963>>
      [] OTHER      -> <<LowerChar(s[i])>>

RECURSIVE LowerFrom(_, _)
LowerFrom(s, i) == IF i > Len(s) THEN <<>> ELSE LowerOne(s, i) \o LowerFrom(s, i + 1)

\* str.lower()
Lower(s) == LowerFrom(s, 1)

\* the characters with str.isspace(), which str.strip() drops
WhiteSpace ==
    {9, 10, 11, 12, 13, 28, 29, 30, 31, 32, 133, 160, 5760, 8232, 8233,
     8239, 8287, 12288} \cup (8192..8202)

IsSpace(c) == c \in WhiteSpace

\* str.strip(): drops the white space at both ends
Strip(s) ==
    LET keep == {i \in DOMAIN s : ~IsSpace(s[i])}
    IN  IF keep = {} THEN <<>>
        ELSE LET lo == CHOOSE i \in keep : \A j \in keep : i <= j
                 hi == CHOOSE i \in keep : \A j \in keep : j <= i
             IN  SubSeq(s, lo, hi)

\* the digits 0 to 9
DigitChars == <<48, 49, 50, 51, 52, 53, 54, 55, 56, 57>> (* 0123456789 *)

\* str.contains(sub) for a pattern without regular-expression characters
Contains(s, sub) ==
    \E i \in 1..(Len(s) - Len(sub) + 1) : SubSeq(s, i, i + Len(sub) - 1) = sub

RECURSIVE Digits(_)
\* str(n) for n >= 0
Digits(n) ==
    IF n < 10 THEN <<DigitChars[n + 1]>>
    ELSE Digits(n \div 10) \o <<DigitChars[(n % 10) + 1]>>

\* str(n) for an integer
IntText(n) == IF n < 0 THEN <<45>> (* - *) \o Digits(0 - n) ELSE Digits(n)

\* ------------------------------------------------------------- cell values
StrV(s)   == [t |-> "str",   s |-> s,    n |-> 0]
BoolV(b)  == [t |-> "bool",  s |-> <<>>, n |-> IF b THEN 1 ELSE 0]
IntV(n)   == [t |-> "int",   s |-> <<>>, n |-> n]
FloatV(n) == [t |-> "float", s |-> <<>>, n |-> n]
NaN       == [t |-> "nan",   s |-> <<>>, n |-> 0]
None      == [t |-> "none",  s |-> <<>>, n |-> 0]

\* a missing value, as isna() and dropna see it
IsMissing(v) == v \in {NaN, None}

\* what Series.astype(str) makes of one value (str(x) of each element: a
\* missing value becomes the text "nan" or "None")
AsTypeStr(v) ==
    CASE v.t = "str"   -> v
      [] v.t = "bool"  -> StrV(IF v.n = 1 THEN <<84, 114, 117, 101>> (* True *)
                                          ELSE <<70, 97, 108, 115, 101>> (* False *))
      [] v.t = "int"   -> StrV(IntText(v.n))
      [] v.t = "float" -> StrV(IntText(v.n) \o <<46, 48>> (* .0 *))
      [] v.t = "nan"   -> StrV(<<110, 97, 110>> (* nan *))
      [] v.t = "none"  -> StrV(<<78, 111, 110, 101>> (* None *))

\* .str.strip() and .str.lower() on one text value
StrStrip(v) == StrV(Strip(v.s))
StrLower(v) == StrV(Lower(v.s))

\* ------------------------------------------------------------- record sets
AllCols == <<"id", "priority_score", "resolved", "department", "severity">>
OptionalCols == {"priority_score", "resolved", "department", "severity"}

\* a data frame: the column names in order and the rows in order
Frame(cols, rows) == [loaded |-> TRUE, cols |-> cols, rows |-> rows]
\* the name data is not bound yet
NoData == [loaded |-> FALSE, cols |-> <<>>, rows |-> <<>>]

ColSet(d) == {d.cols[i] : i \in DOMAIN d.cols}
\* "c" in data.columns
HasCol(d, c) == c \in ColSet(d)
\* data[c]
Column(d, c) == [i \in DOMAIN d.rows |-> d.rows[i][c]]
\* data[c] = series
SetColumn(d, c, series) ==
    [d EXCEPT !.rows = [i \in DOMAIN d.rows |-> [d.rows[i] EXCEPT ![c] = series[i]]]]

RECURSIVE SelectIdx(_, _, _)
SelectIdx(rows, mask, i) ==
    IF i > Len(rows) THEN <<>>
    ELSE (IF mask[i] THEN <<rows[i]>> ELSE <<>>) \o SelectIdx(rows, mask, i + 1)

\* data[mask]: the rows whose mask entry is true, in order
Filter(d, mask) == [d EXCEPT !.rows = SelectIdx(d.rows, mask, 1)]

\* data.head(n)
HeadOf(d, n) ==
    [d EXCEPT !.rows = SubSeq(d.rows, 1, IF Len(d.rows) < n THEN Len(d.rows) ELSE n)]

\* Series.value_counts(): the number of occurrences of every value, missing
\* values dropped; a sequence of [value, count] in descending order of the
\* counts, equal counts in the order of first appearance
ValueCounts(series) ==
    LET first == {i \in DOMAIN series :
                     /\ ~IsMissing(series[i])
                     /\ \A j \in 1..(i - 1) : series[j] # series[i]}
        count(i) == Cardinality({j \in DOMAIN series : series[j] = series[i]})
        rank(i) == 1 + Cardinality({j \in first :
                                       \/ count(j) > count(i)
                                       \/ count(j) = count(i) /\ j < i})
    IN  [k \in 1..Cardinality(first) |->
            LET i == CHOOSE x \in first : rank(x) = k
            IN  [value |-> series[i], count |-> count(i)]]

\* Series.head() of a value_counts result: its first HeadDefault entries
HeadCounts(vc) ==
    SubSeq(vc, 1, IF Len(vc) < HeadDefault THEN Len(vc) ELSE HeadDefault)

\* --------------------------------------------------------------- the page
\* an element of the page: the Streamlit call that rendered it (kind), the
\* section of the script it belongs to, and what it says or shows
El(kind, section, what) == [kind |-> kind, section |-> section, what |-> what]

\* ------------------------------------------------------------ the blocks
\* Every display block is an operator from the record set it finds to the
\* record set it leaves, the page elements it appends and what they show.

\* 1. Summary: st.header, st.dataframe(data)
SummaryBlock(d) ==
    [data |-> d, tags |-> <<El("header", "summary", "summary"),
                       El("dataframe", "summary", "data")>>, shown |-> d]

\* 2. Priority distribution: pie chart of value_counts, or a placeholder
PriorityBlock(d) ==
    IF HasCol(d, "priority_score")
    THEN [data |-> d,
          tags |-> <<El("subheader", "priority", "priority"), El("pyplot", "priority", "priority")>>,
          counts |-> ValueCounts(Column(d, "priority_score"))]
    ELSE [data |-> d,
          tags |-> <<El("subheader", "priority", "priority"), El("info", "priority", "no_priority")>>,
          counts |-> <<>>]

\* the texts that mark a record as not resolved
PendingTexts ==
    { StrV(<<110, 111>> (* no *)), StrV(<<102, 97, 108, 115, 101>> (* false *)), StrV(<<48>> (* 0 *)) }

\* mutant: the normalisation without str.strip()
NormaliseResolvedNoStrip(series) ==
    [i \in DOMAIN series |-> StrLower(AsTypeStr(series[i]))]

\* data["resolved"].astype(str).str.strip().str.lower()
NormaliseResolved(series) ==
    [i \in DOMAIN series |-> StrLower(StrStrip(AsTypeStr(series[i])))]

\* 3. Department-wise pending issues
DepartmentBlock(d) ==
    IF HasCol(d, "resolved") /\ HasCol(d, "department")
    THEN LET d1 == SetColumn(d, "resolved", NormaliseResolved(Column(d, "resolved")))
             unresolved_filter ==
                 [i \in DOMAIN d1.rows |-> d1.rows[i]["resolved"] \in PendingTexts]
             unresolved == ValueCounts(Column(Filter(d1, unresolved_filter), "department"))
         IN  [data |-> d1,
              tags |-> <<El("subheader", "department", "department")>> \o
                       (IF unresolved # <<>> THEN <<El("bar_chart", "department", "department")>>
                                           ELSE <<El("info", "department", "no_unresolved")>>),
              counts |-> unresolved]
    ELSE [data |-> d,
          tags |-> <<El("subheader", "department", "department"), El("info", "department", "no_resolved_or_department")>>,
          counts |-> <<>>]

\* data["priority_score"].astype(str)
StringifyPriority(series) == [i \in DOMAIN series |-> AsTypeStr(series[i])]

\* mutant: the filtered frame is assigned back to data
InsightsBlockKeepsFilter(d) ==
    IF HasCol(d, "priority_score")
    THEN LET d1 == SetColumn(d, "priority_score",
                             StringifyPriority(Column(d, "priority_score")))
             mask == [i \in DOMAIN d1.rows |->
                         Contains(StrLower(d1.rows[i]["priority_score"]).s,
                                  <<104, 105, 103, 104>> (* high *))]
             high_priority == Filter(d1, mask)
         IN  [data |-> high_priority,
              tags |-> <<El("subheader", "insights", "insights"),
                         El("markdown", "insights", "high_total")>>,
              total |-> Len(high_priority.rows),
              table |-> <<>>]
    ELSE [data |-> d, tags |-> <<El("subheader", "insights", "insights")>>,
          total |-> 0, table |-> <<>>]

\* 4. Key insights
InsightsBlock(d) ==
    IF HasCol(d, "priority_score")
    THEN LET d1 == SetColumn(d, "priority_score",
                             StringifyPriority(Column(d, "priority_score")))
             mask == [i \in DOMAIN d1.rows |->
                         Contains(StrLower(d1.rows[i]["priority_score"]).s,
                                  <<104, 105, 103, 104>> (* high *))]
             high_priority == Filter(d1, mask)
         IN  IF HasCol(high_priority, "department")
             THEN [data |-> d1,
                   tags |-> <<El("subheader", "insights", "insights"), El("markdown", "insights", "high_total"),
                              El("markdown", "insights", "high_departments"), El("table", "insights", "high_departments")>>,
                   total |-> Len(high_priority.rows),
                   table |-> HeadCounts(ValueCounts(Column(high_priority, "department")))]
             ELSE [data |-> d1,
                   tags |-> <<El("subheader", "insights", "insights"), El("markdown", "insights", "high_total")>>,
                   total |-> Len(high_priority.rows),
                   table |-> <<>>]
    ELSE [data |-> d, tags |-> <<El("subheader", "insights", "insights")>>, total |-> 0, table |-> <<>>]

\* 5. Severity level
SeverityBlock(d) ==
    IF HasCol(d, "severity")
    THEN [data |-> d,
          tags |-> <<El("subheader", "severity", "severity"), El("bar_chart", "severity", "severity")>>,
          counts |-> ValueCounts(Column(d, "severity"))]
    ELSE [data |-> d, tags |-> <<>>, counts |-> <<>>]

\* how DataFrame.to_string writes one character of a text cell: a tab, a
\* line feed and a carriage return as a backslash and a letter
EscapeChar(c) ==
    CASE c = 9  -> <<92, 116>> (* \t *)
      [] c = 10 -> <<92, 110>> (* \n *)
      [] c = 13 -> <<92, 114>> (* \r *)
      [] OTHER  -> <<c>>

RECURSIVE Escape(_)
\* the text with its tabs, line feeds and carriage returns escaped
Escape(s) == IF s = <<>> THEN <<>> ELSE EscapeChar(Head(s)) \o Escape(Tail(s))

\* how DataFrame.to_string writes one cell
CellText(v) ==
    CASE v.t = "str"   -> Escape(v.s)
      [] v.t = "bool"  -> IF v.n = 1 THEN <<84, 114, 117, 101>> (* True *) ELSE <<70, 97, 108, 115, 101>> (* False *)
      [] v.t = "int"   -> IntText(v.n)
      [] v.t = "float" -> IntText(v.n) \o <<46, 48>> (* .0 *)
      [] v.t = "nan"   -> <<78, 97, 78>> (* NaN *)
      [] v.t = "none"  -> <<78, 111, 110, 101>> (* None *)

\* mutant: the whole frame is written, without head(50)
TextSummaryAll(d) ==
    [header |-> d.cols,
     lines  |-> [i \in DOMAIN d.rows |->
                    [j \in DOMAIN d.cols |-> CellText(d.rows[i][d.cols[j]])]]]

\* data.head(50).to_string(index=False): the header and one line of cell
\* texts per row (the padding between the cells is left out)
TextSummary(d) ==
    LET h == HeadOf(d, HeadRows)
    IN  [header |-> h.cols,
         lines  |-> [i \in DOMAIN h.rows |->
                        [j \in DOMAIN h.cols |-> CellText(h.rows[i][h.cols[j]])]]]

\* the f-string of the prompt
BuildPrompt(d) ==
    [template |-> "Summarize key trends and citizen issues based on this service dataset:",
     table    |-> TextSummary(d)]
NoPrompt == [template |-> "", table |-> [header |-> <<>>, lines |-> <<>>]]

\* ----------------------------------------------------------------- inputs
\* A row kind gives the four optional columns of one row.  The kinds of one
\* profile agree on the type of every column (a column of a data frame has
\* one type, missing values apart).
Kind(p, r, dep, sev) ==
    [priority_score |-> p, resolved |-> r, department |-> dep, severity |-> sev]

Water == StrV(<<87, 97, 116, 101, 114>> (* Water *))
Roads == StrV(<<82, 111, 97, 100, 115>> (* Roads *))
Critical == StrV(<<67, 114, 105, 116, 105, 99, 97, 108>> (* Critical *))
Minor == StrV(<<77, 105, 110, 111, 114>> (* Minor *))

\* text columns, as read from a CSV file
TextKinds ==
    { Kind(StrV(<<72, 105, 103, 104>> (* High *)), StrV(<<78, 111, 32>> (* No  *)), Water, Critical),
      Kind(StrV(<<108, 111, 119>> (* low *)), NaN, Roads, Minor),
      Kind(NaN, StrV(<<160, 70, 65, 76, 83, 69, 13>> (* \u00A0FALSE\u000D *)), NaN, Critical) }
\* boolean resolved, integer priority
BoolKinds ==
    { Kind(IntV(1), BoolV(FALSE), Water, Minor),
      Kind(IntV(2), BoolV(TRUE), Roads, NaN) }
\* integer resolved
IntKinds ==
    { Kind(StrV(<<86, 101, 114, 121, 32, 72, 73, 71, 72>> (* Very HIGH *)), IntV(0), Roads, Minor) }
\* float resolved (an integer column with missing values elsewhere)
FloatKinds ==
    { Kind(StrV(<<104, 105, 103, 104, 101, 115, 116>> (* highest *)), FloatV(0), Water, Critical) }
Profiles == {TextKinds, BoolKinds, IntKinds, FloatKinds}

\* the sequences over S of length at most n
SeqsUpTo(S, n) == UNION {[1..k -> S] : k \in 0..n}

\* the column lists: id and any choice of the optional columns, in order
ColLists ==
    { SelectSeq(AllCols, LAMBDA c : c = "id" \/ c \in cs) : cs \in SUBSET OptionalCols }

\* the frame with the given columns whose i-th row is of kind kinds[i]
MakeFrame(cols, kinds) ==
    Frame(cols,
          [i \in DOMAIN kinds |->
              [c \in {cols[j] : j \in DOMAIN cols} |->
                  IF c = "id" THEN IntV(i) ELSE kinds[i][c]]])

ShortFrames ==
    { MakeFrame(cols, ks) : cols \in ColLists,
                            ks \in UNION {SeqsUpTo(P, MaxRows) : P \in Profiles} }

\* the departments of a long frame: more than Series.head() keeps
LongDepartments ==
    <<NaN, Water, Roads, StrV(<<80, 111, 119, 101, 114>> (* Power *)), StrV(<<72, 101, 97, 108, 116, 104>> (* Health *)),
      StrV(<<80, 97, 114, 107, 115, 9, 38, 10, 80, 108, 97, 121>> (* Parks\t&\nPlay *)), StrV(<<87, 97, 115, 116, 101>> (* Waste *)),
      StrV(<<201, 99, 111, 108, 101, 115>> (* \u00C9coles *))>>

\* the i-th kind of a long frame: three rows in rotation, the departments in
\* a rotation of their own; row 5 has a priority and row 8 a resolved text
\* whose lower case depends on more than the single characters
LongKind(i) ==
    LET ks == <<Kind(StrV(<<72, 105, 103, 104>> (* High *)), StrV(<<78, 111, 32>> (* No  *)), Water, Critical),
                Kind(StrV(<<108, 111, 119>> (* low *)), StrV(<<121, 101, 115>> (* yes *)), Roads, Minor),
                Kind(NaN, StrV(<<32, 70, 65, 76, 83, 69>> (*  FALSE *)), NaN, Critical)>>
        k  == ks[(i % 3) + 1]
        p  == IF i = 5 THEN StrV(<<304, 72, 73, 71, 72>> (* \u0130HIGH *))
                       ELSE k.priority_score
        r  == IF i = 8 THEN StrV(<<917, 922, 922, 929, 917, 924, 917, 931>>
                                 (* \u0395\u039A\u039A\u03A1\u0395\u039C\u0395\u03A3 *))
                       ELSE k.resolved
    IN  Kind(p, r, LongDepartments[(i % Len(LongDepartments)) + 1], k.severity)

\* record sets around the length at which head(50) starts to cut
LongFrames ==
    { MakeFrame(AllCols, [i \in 1..n |-> LongKind(i)]) :
        n \in {HeadRows - 1, HeadRows, HeadRows + 1} }

\* the record sets the CSV file may hold
RecordSets == ShortFrames \cup LongFrames

\* the data frame of a query result with the rows of d: a NULL of a text
\* column is None where read_csv has nan (the missing values of the record
\* sets are all in text columns)
RemoteFrame(d) ==
    [d EXCEPT !.rows = [i \in DOMAIN d.rows |->
                           [c \in DOMAIN d.rows[i] |->
                               IF d.rows[i][c] = NaN THEN None ELSE d.rows[i][c]]]]

\* the record sets a query may return
RemoteRecordSets == {RemoteFrame(d) : d \in RecordSets}

\* ------------------------------------------------------------------ state
VARIABLES
    runNo,          \* the number of the current script run of the session
    sessionLoads,   \* runs of the session that executed the LOAD DATA section
    pc,             \* the position of the current run in the script
    clicked,        \* st.button returns True in this run
    apiKey,         \* GOOGLE_API_KEY is set (genai.configure was called)
    credFound,      \* the credential file exists
    data,           \* the data frame bound to the name data
    asLoaded,       \* the data frame as the load returned it
    remoteResult,   \* what the query of this run returned
    remoteOutcome,  \* "none", "ok", "failed"
    localOutcome,   \* "none", "ok", "notfound", "error"
    remoteAttempts, \* executions of the BigQuery try block in this run
    localReads,     \* calls of pd.read_csv in this run
    apiCalls,       \* calls of model.generate_content in this run
    page,           \* the elements rendered by this run, in order
    shownTable,     \* the frame shown by st.dataframe
    priorityCounts, \* the pie chart
    deptCounts,     \* the department bar chart
    highTotal,      \* the total of high priority cases
    highTable,      \* the table of departments with high priority cases
    severityCounts, \* the severity bar chart
    prompt,         \* the prompt built in this run
    aiFailedAt      \* the step of the AI summary that raised, or "none"

runVars == <<pc, clicked, apiKey, credFound, data, asLoaded, remoteResult,
             remoteOutcome, localOutcome, remoteAttempts, localReads, apiCalls,
             page, shownTable, priorityCounts, deptCounts, highTotal, highTable,
             severityCounts, prompt, aiFailedAt>>
vars == <<runNo, sessionLoads, runVars>>

envVars == <<apiKey, credFound>>
loadVars == <<data, asLoaded, remoteResult, remoteOutcome, localOutcome,
              remoteAttempts, localReads>>
shownVars == <<shownTable, priorityCounts, deptCounts, highTotal, highTable,
               severityCounts>>
aiVars == <<apiCalls, prompt, aiFailedAt>>
sessionVars == <<runNo, sessionLoads>>

\* the state in which a run of the script starts: nothing is bound, nothing
\* is rendered
FreshRun(click) ==
    /\ pc = "env"
    /\ clicked = click
    /\ apiKey = FALSE
    /\ credFound = FALSE
    /\ data = NoData
    /\ asLoaded = NoData
    /\ remoteResult = NoData
    /\ remoteOutcome = "none"
    /\ localOutcome = "none"
    /\ remoteAttempts = 0
    /\ localReads = 0
    /\ apiCalls = 0
    /\ page = <<>>
    /\ shownTable = NoData
    /\ priorityCounts = <<>>
    /\ deptCounts = <<>>
    /\ highTotal = 0
    /\ highTable = <<>>
    /\ severityCounts = <<>>
    /\ prompt = NoPrompt
    /\ aiFailedAt = "none"

Init ==
    /\ runNo = 1
    /\ sessionLoads = 0
    /\ FreshRun(FALSE)

\* ------------------------------------------------------------ environment
\* load_dotenv, the API key: an error element when it is missing, otherwise
\* genai.configure
ConfigureApis ==
    /\ pc = "env"
    /\ \E key \in BOOLEAN :
        /\ apiKey' = key
        /\ page' = IF key THEN page ELSE Append(page, El("error", "env", "missing_key"))
    /\ pc' = "creds"
    /\ UNCHANGED <<credFound, clicked, loadVars, shownVars, aiVars, sessionVars>>

\* mutant: without the credential file the script goes to the CSV file
ResolveCredentialsSkipsRemote ==
    /\ pc = "creds"
    /\ \E found \in BOOLEAN :
        /\ credFound' = found
        /\ page' = (IF found THEN page
                    ELSE Append(page, El("warning", "env", "no_credentials")))
                   \o <<El("title", "header", "title"), El("write", "header", "tagline")>>
        /\ pc' = IF found THEN "remote" ELSE "local"
    /\ UNCHANGED <<apiKey, clicked, loadVars, shownVars, aiVars, sessionVars>>

\* the credential file: a warning when it is missing; then the page header.
\* Nothing later in the script reads the outcome.
ResolveCredentials ==
    /\ pc = "creds"
    /\ \E found \in BOOLEAN :
        /\ credFound' = found
        /\ page' = (IF found THEN page ELSE Append(page, El("warning", "env", "no_credentials")))
                   \o <<El("title", "header", "title"), El("write", "header", "tagline")>>
    /\ pc' = "remote"
    /\ UNCHANGED <<apiKey, clicked, loadVars, shownVars, aiVars, sessionVars>>

\* -------------------------------------------------------------- LOAD DATA
\* the try block: client, query, to_dataframe.  Either all of it succeeds
\* and data is the result, or an Exception is raised somewhere in it and the
\* handler goes on to the CSV file.
LoadRemote ==
    /\ pc = "remote"
    /\ remoteAttempts' = remoteAttempts + 1
    /\ sessionLoads' = sessionLoads + 1
    /\ \/ \E r \in RemoteRecordSets :
            /\ remoteOutcome' = "ok"
            /\ remoteResult' = r
            /\ data' = r
            /\ asLoaded' = r
            /\ page' = page \o <<El("info", "load", "fetching"), El("success", "load", "bigquery")>>
            /\ pc' = "summary"
       \/ /\ remoteOutcome' = "failed"
          /\ page' = page \o <<El("info", "load", "fetching"), El("warning", "load", "bigquery_failed")>>
          /\ pc' = "local"
          /\ UNCHANGED <<remoteResult, data, asLoaded>>
    /\ UNCHANGED <<runNo, envVars, clicked, localOutcome, localReads, shownVars, aiVars>>

\* mutant: the handler of FileNotFoundError does not stop the script
LoadLocalNoStop ==
    /\ pc = "local"
    /\ localReads' = localReads + 1
    /\ \/ \E d \in RecordSets :
            /\ localOutcome' = "ok"
            /\ data' = d
            /\ asLoaded' = d
            /\ page' = Append(page, El("success", "load", "csv"))
            /\ pc' = "summary"
       \/ /\ localOutcome' = "notfound"
          /\ page' = Append(page, El("error", "load", "no_data"))
          /\ pc' = "summary"
          /\ UNCHANGED <<data, asLoaded>>
       \/ /\ localOutcome' = "error"
          /\ page' = Append(page, El("exception", "load", "read_csv"))
          /\ pc' = "crashed"
          /\ UNCHANGED <<data, asLoaded>>
    /\ UNCHANGED <<sessionVars, envVars, clicked, remoteResult, remoteOutcome,
                   remoteAttempts, shownVars, aiVars>>

\* the handler of the try block: pd.read_csv.  Only FileNotFoundError is
\* handled (error element and st.stop); any other exception of read_csv
\* leaves the script uncaught and Streamlit shows it as an exception.
LoadLocal ==
    /\ pc = "local"
    /\ localReads' = localReads + 1
    /\ \/ \E d \in RecordSets :
            /\ localOutcome' = "ok"
            /\ data' = d
            /\ asLoaded' = d
            /\ page' = Append(page, El("success", "load", "csv"))
            /\ pc' = "summary"
       \/ /\ localOutcome' = "notfound"
          /\ page' = Append(page, El("error", "load", "no_data"))
          /\ pc' = "stopped"
          /\ UNCHANGED <<data, asLoaded>>
       \/ /\ localOutcome' = "error"
          /\ page' = Append(page, El("exception", "load", "read_csv"))
          /\ pc' = "crashed"
          /\ UNCHANGED <<data, asLoaded>>
    /\ UNCHANGED <<sessionVars, envVars, clicked, remoteResult, remoteOutcome,
                   remoteAttempts, shownVars, aiVars>>

\* ----------------------------------------------------- DASHBOARD SECTIONS
Summary ==
    /\ pc = "summary"
    /\ LET b == SummaryBlock(data)
       IN  /\ data' = b.data
           /\ page' = page \o b.tags
           /\ shownTable' = b.shown
    /\ pc' = "priority"
    /\ UNCHANGED <<sessionVars, envVars, clicked, asLoaded, remoteResult, remoteOutcome,
                   localOutcome, remoteAttempts, localReads, priorityCounts, deptCounts,
                   highTotal, highTable, severityCounts, aiVars>>

PriorityDistribution ==
    /\ pc = "priority"
    /\ LET b == PriorityBlock(data)
       IN  /\ data' = b.data
           /\ page' = page \o b.tags
           /\ priorityCounts' = b.counts
    /\ pc' = "department"
    /\ UNCHANGED <<sessionVars, envVars, clicked, asLoaded, remoteResult, remoteOutcome,
                   localOutcome, remoteAttempts, localReads, shownTable, deptCounts,
                   highTotal, highTable, severityCounts, aiVars>>

DepartmentPending ==
    /\ pc = "department"
    /\ LET b == DepartmentBlock(data)
       IN  /\ data' = b.data
           /\ page' = page \o b.tags
           /\ deptCounts' = b.counts
    /\ pc' = "insights"
    /\ UNCHANGED <<sessionVars, envVars, clicked, asLoaded, remoteResult, remoteOutcome,
                   localOutcome, remoteAttempts, localReads, shownTable, priorityCounts,
                   highTotal, highTable, severityCounts, aiVars>>

KeyInsights ==
    /\ pc = "insights"
    /\ LET b == InsightsBlock(data)
       IN  /\ data' = b.data
           /\ page' = page \o b.tags
           /\ highTotal' = b.total
           /\ highTable' = b.table
    /\ pc' = "severity"
    /\ UNCHANGED <<sessionVars, envVars, clicked, asLoaded, remoteResult, remoteOutcome,
                   localOutcome, remoteAttempts, localReads, shownTable, priorityCounts,
                   deptCounts, severityCounts, aiVars>>

SeverityLevel ==
    /\ pc = "severity"
    /\ LET b == SeverityBlock(data)
       IN  /\ data' = b.data
           /\ page' = page \o b.tags
           /\ severityCounts' = b.counts
    /\ pc' = "button"
    /\ UNCHANGED <<sessionVars, envVars, clicked, asLoaded, remoteResult, remoteOutcome,
                   localOutcome, remoteAttempts, localReads, shownTable, priorityCounts,
                   deptCounts, highTotal, highTable, aiVars>>

\* ------------------------------------------------------ Gemini AI Summary
\* st.subheader, st.button: the try block is entered only when the button
\* was clicked
Button ==
    /\ pc = "button"
    /\ page' = page \o <<El("subheader", "ai", "ai"), El("button", "ai", "generate")>>
    /\ pc' = IF clicked THEN "ai_prompt" ELSE "ready"
    /\ UNCHANGED <<sessionVars, envVars, clicked, loadVars, shownVars, aiVars>>

\* except Exception: st.error, and the script goes on after the if
AiFailed(step) ==
    /\ aiFailedAt' = step
    /\ page' = Append(page, El("error", "ai", "gemini_failed"))
    /\ pc' = "ready"

\* text_summary and prompt
AiPrompt ==
    /\ pc = "ai_prompt"
    /\ \/ /\ prompt' = BuildPrompt(data)
          /\ pc' = "ai_model"
          /\ UNCHANGED <<page, aiFailedAt>>
       \/ /\ AiFailed("prompt")
          /\ UNCHANGED prompt
    /\ UNCHANGED <<sessionVars, envVars, clicked, loadVars, shownVars, apiCalls>>

\* genai.GenerativeModel("gemini-2.5-flash")
AiModel ==
    /\ pc = "ai_model"
    /\ \/ /\ pc' = "ai_generate"
          /\ UNCHANGED <<page, aiFailedAt>>
       \/ AiFailed("model")
    /\ UNCHANGED <<sessionVars, envVars, clicked, loadVars, shownVars, apiCalls, prompt>>

\* mutant: a failed call is made again
AiGenerateRetries ==
    /\ pc = "ai_generate"
    /\ apiCalls' = apiCalls + 1
    /\ \/ pc' = "ai_success"
       \/ pc' = "ai_generate"
    /\ UNCHANGED <<page, aiFailedAt>>
    /\ UNCHANGED <<sessionVars, envVars, clicked, loadVars, shownVars, prompt>>

\* model.generate_content(prompt): the one call of the API.  Whether it
\* returns or raises is the library's; the script does not look at the key
\* here.
AiGenerate ==
    /\ pc = "ai_generate"
    /\ apiCalls' = apiCalls + 1
    /\ \/ /\ pc' = "ai_success"
          /\ UNCHANGED <<page, aiFailedAt>>
       \/ AiFailed("generate")
    /\ UNCHANGED <<sessionVars, envVars, clicked, loadVars, shownVars, prompt>>

\* st.success("Gemini AI Summary Generated"), before response.text is read
AiSuccess ==
    /\ pc = "ai_success"
    /\ page' = Append(page, El("success", "ai", "gemini"))
    /\ pc' = "ai_write"
    /\ UNCHANGED <<sessionVars, envVars, clicked, loadVars, shownVars, aiVars>>

\* st.write(response.text): response.text raises when the response holds no
\* text (a blocked or empty candidate)
AiWrite ==
    /\ pc = "ai_write"
    /\ \/ /\ page' = Append(page, El("write", "ai", "summary"))
          /\ pc' = "ready"
          /\ UNCHANGED aiFailedAt
       \/ AiFailed("text")
    /\ UNCHANGED <<sessionVars, envVars, clicked, loadVars, shownVars, apiCalls, prompt>>

\* st.info("Dashboard ready and running successfully!"), the last statement
Ready ==
    /\ pc = "ready"
    /\ page' = Append(page, El("info", "end", "ready"))
    /\ pc' = "done"
    /\ UNCHANGED <<sessionVars, envVars, clicked, loadVars, shownVars, aiVars>>

\* ------------------------------------------------------------ interaction
RunEnded == pc \in {"done", "stopped", "crashed"}
OnPage(tag) == \E i \in DOMAIN page : page[i] = tag

\* mutant: the loaded record set is kept for the next run, which skips the
\* load
RerunKeepsData ==
    /\ RunEnded
    /\ runNo < MaxRuns
    /\ runNo' = runNo + 1
    /\ \E click \in BOOLEAN :
        /\ click => OnPage(El("button", "ai", "generate"))
        /\ clicked' = click
    /\ pc' = IF asLoaded.loaded THEN "summary" ELSE "env"
    /\ data' = asLoaded
    /\ remoteAttempts' = 0
    /\ localReads' = 0
    /\ apiCalls' = 0
    /\ page' = <<>>
    /\ shownTable' = NoData
    /\ priorityCounts' = <<>>
    /\ deptCounts' = <<>>
    /\ highTotal' = 0
    /\ highTable' = <<>>
    /\ severityCounts' = <<>>
    /\ prompt' = NoPrompt
    /\ aiFailedAt' = "none"
    /\ UNCHANGED <<sessionLoads, apiKey, credFound, asLoaded, remoteResult,
                   remoteOutcome, localOutcome>>

\* A user interaction re-executes the script from its first line: no name
\* of the script survives, none is cached.  The button can be clicked only
\* when the last run rendered it.
Rerun ==
    /\ RunEnded
    /\ runNo < MaxRuns
    /\ runNo' = runNo + 1
    /\ UNCHANGED sessionLoads
    /\ \E click \in BOOLEAN :
        /\ click => OnPage(El("button", "ai", "generate"))
        /\ clicked' = click
    /\ pc' = "env"
    /\ apiKey' = FALSE
    /\ credFound' = FALSE
    /\ data' = NoData
    /\ asLoaded' = NoData
    /\ remoteResult' = NoData
    /\ remoteOutcome' = "none"
    /\ localOutcome' = "none"
    /\ remoteAttempts' = 0
    /\ localReads' = 0
    /\ apiCalls' = 0
    /\ page' = <<>>
    /\ shownTable' = NoData
    /\ priorityCounts' = <<>>
    /\ deptCounts' = <<>>
    /\ highTotal' = 0
    /\ highTable' = <<>>
    /\ severityCounts' = <<>>
    /\ prompt' = NoPrompt
    /\ aiFailedAt' = "none"

Next ==
    \/ ConfigureApis
    \/ ResolveCredentials
    \/ LoadRemote
    \/ LoadLocal
    \/ Summary
    \/ PriorityDistribution
    \/ DepartmentPending
    \/ KeyInsights
    \/ SeverityLevel
    \/ Button
    \/ AiPrompt
    \/ AiModel
    \/ AiGenerate
    \/ AiSuccess
    \/ AiWrite
    \/ Ready
    \/ Rerun

Spec == Init /\ [][Next]_vars

\* ----------------------------------------------------------------- claims
Sections == {"summary", "priority", "department", "insights", "severity"}
OnPageIn(section, kinds) ==
    \E i \in DOMAIN page : page[i].section = section /\ page[i].kind \in kinds
\* the run rendered no display block, no button and no final message
NothingDisplayed ==
    \A i \in DOMAIN page : page[i].section \notin Sections \cup {"ai", "end"}

NoDataMessage == El("error", "load", "no_data")

\* C1, as claimed: whenever the remote query failed and the local file could
\* not be loaded, for whatever reason, the run ends in the hard stop with the
\* 'No BigQuery connection and no local CSV found' message and renders no
\* display block, no button and no 'Dashboard ready' message.
C1_HardStopOnAnyLocalFailure ==
    (remoteOutcome = "failed" /\ localOutcome \in {"notfound", "error"})
        => /\ pc = "stopped"
           /\ OnPage(NoDataMessage)
           /\ NothingDisplayed

\* C1, amended: after a failed remote query, a missing CSV file ends the run
\* in the hard stop with the message; any other failure of the local load
\* ends the run with that exception uncaught and without the message; in both
\* cases no display block, no button and no 'Dashboard ready' message is
\* rendered.
C1_HardStopOnMissingFile ==
    /\ localOutcome = "notfound"
        => /\ remoteOutcome = "failed"
           /\ pc = "stopped"
           /\ page[Len(page)] = NoDataMessage
           /\ NothingDisplayed
    /\ localOutcome = "error"
        => /\ remoteOutcome = "failed"
           /\ pc = "crashed"
           /\ ~OnPage(NoDataMessage)
           /\ OnPageIn("load", {"exception"})
           /\ NothingDisplayed
    /\ pc \in {"stopped", "crashed"} => localOutcome \in {"notfound", "error"}

C1_Witness ==
    pc = "stopped" /\ remoteOutcome = "failed" /\ localOutcome = "notfound"

\* what a gated block renders when its columns are there: a chart, a table
\* or a text (for the department block also the message that nothing is
\* pending), and when they are not: an informational element
ContentKinds == {"pyplot", "bar_chart", "markdown", "table"}
ContentOf(section) ==
    \/ OnPageIn(section, ContentKinds)
    \/ section = "department" /\ OnPage(El("info", "department", "no_unresolved"))
PlaceholderOf(section) ==
    \E i \in DOMAIN page :
        /\ page[i].section = section
        /\ page[i].kind = "info"
        /\ page[i] # El("info", "department", "no_unresolved")

\* the columns a gated block depends on
Needs(section) ==
    CASE section = "priority"   -> {"priority_score"}
      [] section = "department" -> {"resolved", "department"}
      [] section = "insights"   -> {"priority_score"}
      [] section = "severity"   -> {"severity"}

\* C2, as claimed: at the end of a run every gated block has rendered its
\* content when its columns are present and an informational placeholder
\* when one of them is absent.
C2_ContentOrPlaceholder ==
    pc = "done" =>
        \A b \in Sections \ {"summary"} :
            IF Needs(b) \subseteq ColSet(data) THEN ContentOf(b) ELSE PlaceholderOf(b)

\* the block of a section, applied to a record set
BlockOf(section, d) ==
    CASE section = "summary"    -> SummaryBlock(d)
      [] section = "priority"   -> PriorityBlock(d)
      [] section = "department" -> DepartmentBlock(d)
      [] section = "insights"   -> InsightsBlock(d)
      [] section = "severity"   -> SeverityBlock(d)

\* what a block renders: its result without the record set it leaves
Rendered(b) == [f \in (DOMAIN b) \ {"data"} |-> b[f]]

RECURSIVE RunBlocks(_, _)
\* what every block renders when the blocks are executed in the given order
\* on the record set d
RunBlocks(order, d) ==
    IF order = <<>> THEN <<>>
    ELSE LET b == BlockOf(Head(order), d)
         IN  (Head(order) :> Rendered(b)) @@ RunBlocks(Tail(order), b.data)

ScriptOrder == <<"summary", "priority", "department", "insights", "severity">>
Orders ==
    { o \in [1..Cardinality(Sections) -> Sections] :
        \A i, j \in DOMAIN o : i # j => o[i] # o[j] }

\* C3, as claimed: for the record set just loaded, every block renders the
\* same under every order of execution of the five blocks as under the order
\* of the script.
C3_OrderInsensitive ==
    pc = "summary" =>
        \A o \in Orders : RunBlocks(o, data) = RunBlocks(ScriptOrder, data)

\* C4, as claimed: over all the runs of a session the data acquisition is
\* performed at most once.
C4_LoadedOncePerSession == sessionLoads <= 1

BeforeLoad == pc \in {"env", "creds", "remote"}

\* C4, amended: the record set is loaded once per run, not once per session:
\* every re-execution of the script starts with no record set, performs the
\* data acquisition again (one remote attempt, then at most one local read)
\* and reuses nothing of an earlier run.
C4_LoadedOncePerRun ==
    /\ BeforeLoad => /\ sessionLoads = runNo - 1
                     /\ data = NoData
                     /\ remoteAttempts = 0
                     /\ localReads = 0
    /\ ~BeforeLoad => /\ sessionLoads = runNo
                      /\ remoteAttempts = 1
                      /\ localReads <= 1

C4_Witness == runNo = 2 /\ clicked /\ pc = "summary" /\ sessionLoads = 2

\* C5, as claimed: when a step of the AI summary raised, the run ends with
\* the 'Gemini summarization failed' error on the page, without the success
\* message and without the summary, and with the 'Dashboard ready' message.
C5_FailureShownWithoutSuccess ==
    (pc = "done" /\ aiFailedAt # "none")
        => /\ OnPage(El("error", "ai", "gemini_failed"))
           /\ ~OnPage(El("success", "ai", "gemini"))
           /\ ~OnPage(El("write", "ai", "summary"))
           /\ OnPage(El("info", "end", "ready"))

\* C6: in every run generate_content is called at most once, and only when
\* the record set was loaded and the button was clicked; a run without a
\* click and a run that ended during the load call it never.
C6_ApiCallOnDemandOnce ==
    /\ apiCalls <= 1
    /\ apiCalls = 1 => /\ clicked
                       /\ asLoaded.loaded
                       /\ OnPage(El("button", "ai", "generate"))
    /\ ~clicked => apiCalls = 0
    /\ pc \in {"stopped", "crashed"} => apiCalls = 0

C6_Witness == pc = "done" /\ apiCalls = 1 /\ aiFailedAt = "generate"

\* C7: the remote attempt is made first and exactly once in every run,
\* whether or not the credential file was found; the CSV file is read only
\* after the remote attempt failed; when the remote query succeeded the file
\* is not read and the record set is the result of the query.
C7_RemoteFirstThenLocal ==
    /\ BeforeLoad => remoteAttempts = 0 /\ localReads = 0
    /\ ~BeforeLoad => remoteAttempts = 1
    /\ localReads <= 1
    /\ localReads = 1 => remoteAttempts = 1 /\ remoteOutcome = "failed"
    /\ pc = "local" => remoteOutcome = "failed" /\ localReads = 0
    /\ remoteOutcome = "ok" => /\ localReads = 0
                               /\ localOutcome = "none"
                               /\ asLoaded = remoteResult
                               /\ asLoaded.loaded

C7_Witness ==
    pc = "done" /\ ~credFound /\ remoteOutcome = "ok" /\ Len(asLoaded.rows) > 0

Min(a, b) == IF a < b THEN a ELSE b

PromptBuilt == prompt # NoPrompt

\* C8: the table of the prompt has exactly the first min(50, n) rows of the
\* n rows of the record set, in load order: line i is row i of the record
\* set as loaded (its id cell is the decimal id of the i-th loaded row, and
\* its department and severity cells are the loaded values of that row,
\* written with control characters escaped and a missing value as NaN from
\* the CSV file and as None from the query), and
\* there is no line for a row beyond the 50th.
C8_PromptHoldsFirstRows ==
    PromptBuilt =>
        LET n == Len(asLoaded.rows)
            lines == prompt.table.lines
        IN  /\ Len(lines) = Min(50, n)
            /\ prompt.table.header = asLoaded.cols
            /\ \A i \in DOMAIN lines :
                  \A j \in DOMAIN asLoaded.cols :
                      LET c == asLoaded.cols[j]
                          v == asLoaded.rows[i][c]
                      IN  /\ c = "id" => lines[i][j] = IntText(v.n)
                          /\ c \in {"department", "severity"} =>
                                /\ {9, 10, 13} \cap {lines[i][j][k] : k \in DOMAIN lines[i][j]} = {}
                                /\ lines[i][j] = (CASE v = NaN  -> <<78, 97, 78>> (* NaN *)
                                                    [] v = None -> <<78, 111, 110, 101>> (* None *)
                                                    [] OTHER    -> Escape(v.s))

C8_Witness ==
    /\ PromptBuilt /\ Len(asLoaded.rows) > HeadRows /\ pc = "done"
    /\ HasCol(asLoaded, "department")
    /\ \E i \in DOMAIN prompt.table.lines :
          \E j \in DOMAIN asLoaded.cols :
              /\ asLoaded.cols[j] = "department"
              /\ Contains(asLoaded.rows[i]["department"].s, <<9>> (* tab *))
              /\ Contains(prompt.table.lines[i][j], <<92, 116>> (* \t *))

\* a record is pending: its resolved value as a string, trimmed and in lower
\* case, is "no", "false" or "0"
IsPending(v) ==
    Lower(Strip(AsTypeStr(v).s)) \in {<<110, 111>> (* no *), <<102, 97, 108, 115, 101>> (* false *), <<48>> (* 0 *)}

\* the pending records of the loaded record set
PendingRows == {i \in DOMAIN asLoaded.rows : IsPending(asLoaded.rows[i]["resolved"])}

DepartmentRan == pc \in {"insights", "severity", "button", "ai_prompt", "ai_model",
                         "ai_generate", "ai_success", "ai_write", "ready", "done"}
InsightsRan == DepartmentRan /\ pc # "insights"

\* C9: with both columns present the department chart shows for every
\* department the number of its pending records, and nothing else; the chart
\* is on the page exactly when it shows something, and when no record is
\* pending the 'No unresolved issues found' message is there in its place.
C9_PendingByDepartment ==
    (DepartmentRan /\ HasCol(asLoaded, "resolved") /\ HasCol(asLoaded, "department"))
        => LET pending == PendingRows
               in(dep) == {i \in pending : asLoaded.rows[i]["department"] = dep}
               deps == {asLoaded.rows[i]["department"] : i \in pending} \ {NaN, None}
           IN  /\ {deptCounts[k] : k \in DOMAIN deptCounts}
                     = { [value |-> dep, count |-> Cardinality(in(dep))] : dep \in deps }
               /\ \A k, l \in DOMAIN deptCounts :
                     k # l => deptCounts[k].value # deptCounts[l].value
               /\ OnPage(El("bar_chart", "department", "department")) <=> deptCounts # <<>>
               /\ OnPage(El("info", "department", "no_unresolved")) <=> deptCounts = <<>>
               /\ pending = {}
                    => /\ OnPage(El("info", "department", "no_unresolved"))
                       /\ ~OnPage(El("bar_chart", "department", "department"))
               /\ ~OnPage(El("info", "department", "no_resolved_or_department"))

C9_Witness ==
    /\ pc = "done"
    /\ {"resolved", "department"} \subseteq ColSet(asLoaded)
    /\ \E k \in DOMAIN deptCounts : deptCounts[k].count = 2
    /\ \E i \in DOMAIN asLoaded.rows :
          /\ asLoaded.rows[i]["resolved"] = StrV(<<78, 111, 32>> (* No  *))
          /\ asLoaded.rows[i]["resolved"] # data.rows[i]["resolved"]

\* the value the script leaves in column c of row i, given the blocks that ran
Expected(i, c) ==
    LET v == asLoaded.rows[i][c]
    IN  CASE c = "resolved" /\ DepartmentRan /\ HasCol(asLoaded, "department")
                -> StrV(Lower(Strip(AsTypeStr(v).s)))
          [] c = "priority_score" /\ InsightsRan -> AsTypeStr(v)
          [] OTHER -> v

\* C10: from the load to the end of the run the blocks change the record set
\* only in the resolved column (trimmed lower-case strings, once the
\* department block ran with both columns present) and in the priority_score
\* column (strings, once the key insights block ran); rows, order, columns
\* and all other values stay; the summary table shows the record set as
\* loaded and the prompt is built from the converted record set.
C10_OnlyTwoColumnsChange ==
    asLoaded.loaded =>
        /\ data.cols = asLoaded.cols
        /\ Len(data.rows) = Len(asLoaded.rows)
        /\ \A i \in DOMAIN asLoaded.rows :
              \A c \in ColSet(asLoaded) : data.rows[i][c] = Expected(i, c)
        /\ pc # "summary" => shownTable = asLoaded
        /\ PromptBuilt =>
              \A i \in DOMAIN prompt.table.lines :
                  \A j \in DOMAIN asLoaded.cols :
                      prompt.table.lines[i][j] = CellText(Expected(i, asLoaded.cols[j]))

C10_Witness ==
    /\ pc = "done"
    /\ PromptBuilt
    /\ OptionalCols \subseteq ColSet(asLoaded)
    /\ \E i \in DOMAIN data.rows :
          /\ data.rows[i]["resolved"] # asLoaded.rows[i]["resolved"]
          /\ data.rows[i]["priority_score"] # asLoaded.rows[i]["priority_score"]
          /\ data.rows[i]["severity"] = asLoaded.rows[i]["severity"]
    /\ shownTable # data

====
